---------------------------- MODULE Spec2Model ----------------------------
(***************************************************************************)
(* Model of the LSP transport and session engine of mcp-language-server:   *)
(* the framed wire codec (WriteMessage / ReadMessage), the dispatch loop   *)
(* (Client.handleMessages), the pending-call table (Client.handlers) and   *)
(* the Call / Notify facade.                                               *)
(*                                                                         *)
(* Two specifications share the module:                                    *)
(*   Spec       the session engine: concurrent Calls, a Notify, the        *)
(*              dispatch loop and the peer, at the granularity of one      *)
(*              shared-memory access or one stream write per step;         *)
(*   SpecCodec  the wire codec at byte level: frames written by            *)
(*              WriteMessage, a peer that may cut or garble the stream,    *)
(*              and the reader loop decoding them with ReadMessage.        *)
(***************************************************************************)
EXTENDS Integers, Sequences, FiniteSets, TLC

\* ------------------------------------------------------------------ bounds
\* MaxOps bounds a run: the Calls and Notifys started, the items the peer puts
\* on the inbound stream and its closing of the outbound stream, all together.
\* MaxQueue bounds the items waiting unread on the inbound stream.
MaxOps == 3
MaxQueue == 1
\* Files the session may have open when it is shut down.
MaxOpenFiles == 1
\* Frames the peer's input pipe holds before a write to it blocks.
PipeCap == 1

\* ------------------------------------------------------- program constants
MethodNotFound == -32601
InternalError == -32603
\* protocol.ContentModified and protocol.ServerCancelled, the two error codes
\* Call maps to sentinel errors (values of the LSP specification).
ContentModified == -32801
ServerCancelled == -32802
\* The process identifier of init, which adopts orphans (main, line 258).
InitPid == 1

VARIABLES
    nextID,      \* Client.nextID, the identifier generator
    handlers,    \* Client.handlers: key string -> response channel (named by its Call)
    chans,       \* the channel each Call makes: [buf, closed]
    callpc,      \* position of each Call invocation
    callID,      \* the id each Call drew
    callResp,    \* the message each Call received from its channel
    callRet,     \* what each Call returned
    notifypc,    \* position of each Notify invocation
    stdout,      \* inbound stream: decoded items the loop has not read yet
    decoded,     \* the messages the loop has read so far, in order
    peerSent,    \* how many items the peer has put on the inbound stream
    stdin,       \* outbound stream: the chunks written so far
    stdinOpen,   \* FALSE once writes to the outbound stream fail
    looppc,      \* position of handleMessages
    loopMsg,     \* the message handleMessages is processing
    loopCh,      \* the channel handleMessages looked up
    loopResp,    \* the response handleMessages is writing
    loopOut,     \* what the request handler returned for loopMsg
    loopEnd,     \* how handleMessages logged its return
    respLog,     \* every WriteMessage of a response by the loop: [id, ok]
    spawned,     \* notification handler goroutines launched, not yet run
    observed,    \* notification handler invocations, in the order they ran
    panicked,    \* the process died of a runtime panic
    wire,        \* codec: the bytes on a stream that the reader has not consumed
    wireEOF,     \* codec: the writing end of that stream is closed
    wpending,    \* codec: the message whose header is written and body is not
    written,     \* codec: the messages WriteMessage framed onto the stream
    tampered,    \* codec: the stream holds bytes WriteMessage did not write, or was cut
    rawWritten,  \* codec: the frame of its own making the peer wrote, if any
    readLog,     \* codec: what each ReadMessage on the stream returned
    readerEnd,   \* codec: how the reading loop logged its return
    mainpc,      \* main: position of the main goroutine
    lspClient,   \* main: s.lspClient != nil
    spawnedProcs, \* main: language server subprocesses spawned by lsp.NewClient
    openFiles,   \* main: files the client holds open
    osPpid,      \* main: what os.Getppid() returns now
    ppid,        \* main: the parent identifier the monitor captured (0: not yet)
    currentPpid, \* main: the monitor's latest sample (0: none yet)
    monpc,       \* main: position of the parent monitor goroutine
    parentDeath, \* main: how many times parentDeath was closed
    sigChan,     \* main: signals buffered in sigChan
    trigpc,      \* main: position of the trigger goroutine
    clpc,        \* cleanup: position of each invocation, by its caller
    stages,      \* cleanup: the stages each invocation has executed, in order
    failed,      \* cleanup: the stages of each invocation that reported an error
    waitEnd,     \* cleanup: how each invocation's wait for Shutdown ended
    shpc,        \* cleanup: position of each invocation's Shutdown goroutine
    closeCalls,  \* cleanup: how many times Close was invoked on the client
    doneClosed,  \* cleanup: how many times close(done) was executed
    peerMode,    \* the language server: responsive, silent, stalled or exited
    pipeFree     \* room left in the language server's input pipe, in frames

vars == <<nextID, handlers, chans, callpc, callID, callResp, callRet, notifypc,
          stdout, decoded, peerSent, stdin, stdinOpen, looppc, loopMsg, loopCh,
          loopResp, loopOut, loopEnd, respLog, spawned, observed, panicked,
          wire, wireEOF, wpending, written, tampered, rawWritten, readLog, readerEnd,
          mainpc, lspClient, spawnedProcs, openFiles, osPpid, ppid, currentPpid, monpc,
          parentDeath, sigChan, trigpc, clpc, stages, failed, waitEnd, shpc, closeCalls,
          doneClosed, peerMode, pipeFree>>

CallSet == 1..MaxOps
\* cleanup is called by the trigger goroutine and by main.
Invokers == {"trigger", "main"}
NotifySet == 1..MaxOps

\* ---------------------------------------------------------------- messages
\* A Message as the loop sees it after decoding. id = NoID stands for an
\* absent or null id, method = "" for an absent method, code = 0 for no error.
NoID == 0
NoMsg == [id |-> NoID, method |-> "", code |-> 0, text |-> <<>>, result |-> ""]

Request(id, method) ==
    [id |-> id, method |-> method, code |-> 0, text |-> <<>>, result |-> ""]

Notification(method) ==
    [id |-> NoID, method |-> method, code |-> 0, text |-> <<>>, result |-> ""]

ResultResponse(id, result) ==
    [id |-> id, method |-> "", code |-> 0, text |-> <<>>, result |-> result]

ErrorResponse(id, code, text) ==
    [id |-> id, method |-> "", code |-> code, text |-> text, result |-> ""]

\* MessageID.String(): the canonical key of an id in the pending-call table.
IDString(id) == ToString(id)


\* An item of the inbound stream as ReadMessage returns it: a message, or the
\* error text of a failed read (err = <<>> when the read succeeded).
MsgItem(m) == [err |-> <<>>, msg |-> m]
ErrItem(e) == [err |-> e, msg |-> NoMsg]

\* ------------------------------------------------------- ReadMessage errors
\* Error texts, word by word: fmt.Errorf("...: %w", err) puts the text of the
\* wrapped error after the prefix.
IoEOF == <<"EOF">>
IoErrUnexpectedEOF == <<"unexpected ", "EOF">>
JsonSyntaxError == <<"unexpected ", "end ", "of ", "JSON ", "input">>
JsonInvalidCharacter == <<"invalid ", "character ", "looking ", "for ", "beginning ", "of ", "value">>
ScanExpectedInteger == <<"expected ", "integer">>

ErrReadHeader(e) == <<"failed ", "to ", "read ", "header: ">> \o e
ErrInvalidContentLength(e) == <<"invalid ", "Content-Length: ">> \o e
ErrReadContent(e) == <<"failed ", "to ", "read ", "content: ">> \o e
ErrUnmarshal(e) == <<"failed ", "to ", "unmarshal ", "message: ">> \o e

\* strings.Contains(err.Error(), word)
Contains(text, word) == \E i \in 1..Len(text) : text[i] = word

\* handleMessages: the test that decides "normal shutdown" for a failed read.
IsNormalClose(e) == Contains(e, "EOF")

\* ------------------------------------------------------ handler registries
\* Client.serverRequestHandlers and Client.notificationHandlers: the methods
\* that have a handler registered.
ServerRequestHandlers == {"workspace/applyEdit"}
NotificationHandlers == {"textDocument/publishDiagnostics"}

\* What a registered request handler can return: a result, an error, or a
\* result json.Marshal rejects.
HandlerOutcomes == {"result", "error", "unmarshalable"}
HandlerErrorText == <<"handler ", "failed">>
MarshalErrorText == <<"failed ", "to ", "marshal ", "response: ">>

\* A classification that forgets the id test: any message with a method is
\* taken for a request.
ClassifyIgnoringID(msg) ==
    IF msg.method # "" THEN "request"
    ELSE IF msg.id # NoID THEN "response"
    ELSE "none"
\* Variant of Classify that looks at the id first: whatever carries an id is
\* taken for a response.
ClassifyIDFirst(msg) ==
    IF msg.id # NoID THEN "response"
    ELSE IF msg.method # "" THEN "notification"
    ELSE "none"
\* handleMessages: the class of a decoded message.
Classify(msg) ==
    IF msg.method # "" /\ msg.id # NoID THEN "request"
    ELSE IF msg.method # "" /\ msg.id = NoID THEN "notification"
    ELSE IF msg.id # NoID /\ msg.method = "" THEN "response"
    ELSE "none"

\* A response builder with the two error codes exchanged and no marshal case.
ResponseForSwapped(msg, registered, outcome) ==
    IF registered
    THEN IF outcome = "result" THEN ResultResponse(msg.id, "handled")
         ELSE ErrorResponse(msg.id, MethodNotFound, HandlerErrorText)
    ELSE ErrorResponse(msg.id, InternalError, <<"method ", "not ", "found: ", msg.method>>)
\* handleMessages: the response built for a peer request.
ResponseFor(msg, registered, outcome) ==
    IF registered
    THEN IF outcome = "error" THEN ErrorResponse(msg.id, InternalError, HandlerErrorText)
         ELSE IF outcome = "unmarshalable"
              THEN ErrorResponse(msg.id, InternalError, MarshalErrorText)
              ELSE ResultResponse(msg.id, "handled")
    ELSE ErrorResponse(msg.id, MethodNotFound, <<"method ", "not ", "found: ", msg.method>>)

\* ------------------------------------------------------- pending-call table
EmptyTable == [k \in {} |-> 0]

\* Variant of Register that leaves the table as it is.
RegisterNothing(h, key, c) == h
\* Call: c.handlers[idStr] = ch
Register(h, key, c) == [k \in DOMAIN h \cup {key} |-> IF k = key THEN c ELSE h[k]]

\* A removal that is forgotten, and one that clears the whole table.
DeleteNothing(h, key) == h
DeleteAll(h, key) == EmptyTable
\* Call's deferred function: delete(c.handlers, idStr)
Delete(h, key) == [k \in DOMAIN h \ {key} |-> h[k]]

\* A lookup that falls back to some entry when the key is absent, and one that
\* ignores the key.
LookupAny(h, key) ==
    IF key \in DOMAIN h THEN h[key]
    ELSE IF DOMAIN h # {} THEN h[CHOOSE k \in DOMAIN h : TRUE]
    ELSE 0
LookupFirst(h, key) ==
    IF DOMAIN h # {} THEN h[CHOOSE k \in DOMAIN h : TRUE] ELSE 0
\* handleMessages: ch, ok := c.handlers[idStr]; 0 stands for "not ok".
Lookup(h, key) == IF key \in DOMAIN h THEN h[key] ELSE 0

\* make(chan *Message, 1)
ChanCap == 1
NewChan == [buf |-> <<>>, closed |-> FALSE]

\* ------------------------------------------------------------ outbound stream
\* WriteMessage writes a frame with two writes: the header, then the body.
Chunk(part, by, n, msg) == [part |-> part, by |-> by, n |-> n, msg |-> msg]


\* --------------------------------------------------------------- the peer
\* What the language server can put on the inbound stream: responses (for
\* ids issued or not, with or without an error), requests and notifications
\* for registered and unregistered methods, and a message with neither
\* method nor id.
PeerErrorCodes == {-32000}
PeerSentinelCodes == {ContentModified, ServerCancelled}
PeerRequests == {Request(1, "workspace/applyEdit"), Request(2, "foo/bar")}
PeerMsgs ==
    {ResultResponse(i, "answer") : i \in CallSet}
    \cup {ErrorResponse(i, e, <<"peer ", "error">>) : i \in CallSet, e \in PeerErrorCodes}
    \cup {ErrorResponse(1, e, <<"peer ", "error">>) : e \in PeerSentinelCodes}
    \cup PeerRequests
    \cup {Notification(m) : m \in {"textDocument/publishDiagnostics", "foo/note"}}
    \cup {NoMsg}

\* The ways a read of the inbound stream fails (ReadMessage's error returns).
ReadErrors ==
    { ErrReadHeader(IoEOF),
      ErrInvalidContentLength(ScanExpectedInteger),
      ErrReadContent(IoErrUnexpectedEOF),
      ErrUnmarshal(JsonSyntaxError) }

StreamEnded == stdout # <<>> /\ stdout[Len(stdout)].err # <<>>

OpsUsed ==
    nextID + Cardinality({n \in NotifySet : notifypc[n] # "idle"}) + peerSent
    + (IF stdinOpen THEN 0 ELSE 1)

\* ------------------------------------------------------------------- Init
Init ==
    /\ nextID = 0
    /\ handlers = EmptyTable
    /\ chans = [c \in CallSet |-> NewChan]
    /\ callpc = [c \in CallSet |-> "idle"]
    /\ callID = [c \in CallSet |-> NoID]
    /\ callResp = [c \in CallSet |-> NoMsg]
    /\ callRet = [c \in CallSet |-> "none"]
    /\ notifypc = [n \in NotifySet |-> "idle"]
    /\ stdout = <<>>
    /\ decoded = <<>>
    /\ peerSent = 0
    /\ stdin = <<>>
    /\ stdinOpen = TRUE
    /\ looppc = "read"
    /\ loopMsg = NoMsg
    /\ loopCh = 0
    /\ loopResp = NoMsg
    /\ loopOut = "none"
    /\ loopEnd = "running"
    /\ respLog = <<>>
    /\ spawned = {}
    /\ observed = <<>>
    /\ panicked = FALSE
    /\ wire = <<>>
    /\ wireEOF = FALSE
    /\ wpending = NoMsg
    /\ written = <<>>
    /\ tampered = FALSE
    /\ rawWritten = <<>>
    /\ readLog = <<>>
    /\ readerEnd = "running"
    /\ mainpc = "newClient"
    /\ lspClient = FALSE
    /\ spawnedProcs = 0
    /\ openFiles = 0
    /\ osPpid = 5
    /\ ppid = 0
    /\ currentPpid = 0
    /\ monpc = "start"
    /\ parentDeath = 0
    /\ sigChan = 0
    /\ trigpc = "select"
    /\ clpc = [i \in Invokers |-> "idle"]
    /\ stages = [i \in Invokers |-> <<>>]
    /\ failed = [i \in Invokers |-> {}]
    /\ waitEnd = [i \in Invokers |-> "none"]
    /\ shpc = [i \in Invokers |-> "idle"]
    /\ closeCalls = 0
    /\ doneClosed = 0
    /\ peerMode = "responsive"
    /\ pipeFree = PipeCap

callVars == <<nextID, chans, callpc, callID, callResp, callRet>>
loopVars == <<looppc, loopMsg, loopCh, loopResp, loopOut, loopEnd, respLog, decoded>>
notifVars == <<spawned, observed>>
codecVars == <<wire, wireEOF, wpending, written, tampered, rawWritten, readLog, readerEnd>>
lifeVars ==
    <<mainpc, lspClient, spawnedProcs, openFiles, osPpid, ppid, currentPpid, monpc,
      parentDeath, sigChan, trigpc, clpc, stages, failed, waitEnd, shpc, closeCalls,
      doneClosed, peerMode, pipeFree>>

\* ------------------------------------------------------------------- Call
\* Variant of Add that loses every update after the first, as an increment
\* that is not atomic can.
AddLost(n, delta) == IF n >= 1 THEN n ELSE n + delta
\* c.nextID.Add(1): the atomic add, which returns the new value.
Add(n, delta) == n + delta

\* id := c.nextID.Add(1); msg, err := NewRequest(id, method, params).
\* Invocations are numbered in the order they start.
CallBegin(c) ==
    /\ ~panicked
    /\ callpc[c] = "idle"
    /\ c = nextID + 1
    /\ OpsUsed < MaxOps
    /\ nextID' = Add(nextID, 1)
    /\ callID' = [callID EXCEPT ![c] = Add(nextID, 1)]
    /\ \E created \in BOOLEAN :
         IF created
         THEN /\ callpc' = [callpc EXCEPT ![c] = "register"]
              /\ callRet' = callRet
         ELSE /\ callpc' = [callpc EXCEPT ![c] = "done"]
              /\ callRet' = [callRet EXCEPT ![c] = "createError"]
    /\ UNCHANGED <<handlers, chans, callResp, notifypc, stdout, peerSent, stdin,
                   stdinOpen, loopVars, notifVars, panicked, codecVars, lifeVars>>

\* ch := make(chan *Message, 1); c.handlers[idStr] = ch; defer delete(...)
CallRegister(c) ==
    /\ ~panicked
    /\ callpc[c] = "register"
    /\ chans' = [chans EXCEPT ![c] = NewChan]
    /\ handlers' = Register(handlers, IDString(callID[c]), c)
    /\ callpc' = [callpc EXCEPT ![c] = "writeHeader"]
    /\ UNCHANGED <<nextID, callID, callResp, callRet, notifypc, stdout, peerSent,
                   stdin, stdinOpen, loopVars, notifVars, panicked, codecVars, lifeVars>>

\* WriteMessage(c.stdin, msg): fmt.Fprintf(w, "Content-Length: ...")
CallWriteHeader(c) ==
    /\ ~panicked
    /\ callpc[c] = "writeHeader"
    /\ IF stdinOpen
       THEN /\ stdin' = Append(stdin, Chunk("header", "call", c, Request(callID[c], "call")))
            /\ callpc' = [callpc EXCEPT ![c] = "writeBody"]
            /\ callRet' = callRet
       ELSE /\ stdin' = stdin
            /\ callpc' = [callpc EXCEPT ![c] = "deferred"]
            /\ callRet' = [callRet EXCEPT ![c] = "sendError"]
    /\ UNCHANGED <<nextID, handlers, chans, callID, callResp, notifypc, stdout,
                   peerSent, stdinOpen, loopVars, notifVars, panicked, codecVars, lifeVars>>

\* WriteMessage(c.stdin, msg): w.Write(data)
CallWriteBody(c) ==
    /\ ~panicked
    /\ callpc[c] = "writeBody"
    /\ IF stdinOpen
       THEN /\ stdin' = Append(stdin, Chunk("body", "call", c, Request(callID[c], "call")))
            /\ callpc' = [callpc EXCEPT ![c] = "wait"]
            /\ callRet' = callRet
       ELSE /\ stdin' = stdin
            /\ callpc' = [callpc EXCEPT ![c] = "deferred"]
            /\ callRet' = [callRet EXCEPT ![c] = "sendError"]
    /\ UNCHANGED <<nextID, handlers, chans, callID, callResp, notifypc, stdout,
                   peerSent, stdinOpen, loopVars, notifVars, panicked, codecVars, lifeVars>>

\* Variant of CallOutcome without the switch on the error code.
CallOutcomeNoSentinels(resp, decodedOK) ==
    IF resp.code # 0 THEN "requestFailed"
    ELSE IF decodedOK THEN "ok"
    ELSE "unmarshalError"

\* What Call returns for the response it received; decoded says whether
\* json.Unmarshal(resp.Result, result) succeeded.
CallOutcome(resp, decodedOK) ==
    IF resp.code # 0
    THEN CASE resp.code = ContentModified -> "contentModified"
           [] resp.code = ServerCancelled -> "serverCancelled"
           [] OTHER -> "requestFailed"
    ELSE IF decodedOK THEN "ok"
    ELSE "unmarshalError"

\* select { case resp = <-ch: ... }: a receive is ready when the channel holds
\* a message or is closed; a closed empty channel yields nil, and resp.Error
\* on nil panics.
CallReceive(c) ==
    /\ ~panicked
    /\ callpc[c] = "wait"
    /\ chans[c].buf # <<>> \/ chans[c].closed
    /\ IF chans[c].buf # <<>>
       THEN /\ chans' = [chans EXCEPT ![c].buf = Tail(@)]
            /\ callResp' = [callResp EXCEPT ![c] = Head(chans[c].buf)]
            /\ \E decodedOK \in BOOLEAN :
                 callRet' = [callRet EXCEPT ![c] = CallOutcome(Head(chans[c].buf), decodedOK)]
            /\ callpc' = [callpc EXCEPT ![c] = "deferred"]
            /\ panicked' = panicked
       ELSE /\ panicked' = TRUE
            /\ UNCHANGED <<chans, callResp, callRet, callpc>>
    /\ UNCHANGED <<nextID, handlers, callID, notifypc, stdout, peerSent, stdin,
                   stdinOpen, loopVars, notifVars, codecVars, lifeVars>>

\* select { case <-ctx.Done(): return "request timed out" }
CallTimeout(c) ==
    /\ ~panicked
    /\ callpc[c] = "wait"
    /\ callRet' = [callRet EXCEPT ![c] = "timeout"]
    /\ callpc' = [callpc EXCEPT ![c] = "deferred"]
    /\ UNCHANGED <<nextID, handlers, chans, callID, callResp, notifypc, stdout,
                   peerSent, stdin, stdinOpen, loopVars, notifVars, panicked, codecVars, lifeVars>>

\* The deferred function runs as Call returns.
CallDeferred(c) ==
    /\ ~panicked
    /\ callpc[c] = "deferred"
    /\ handlers' = Delete(handlers, IDString(callID[c]))
    /\ callpc' = [callpc EXCEPT ![c] = "done"]
    /\ UNCHANGED <<nextID, chans, callID, callResp, callRet, notifypc, stdout,
                   peerSent, stdin, stdinOpen, loopVars, notifVars, panicked, codecVars, lifeVars>>


\* ----------------------------------------------------------------- Notify
\* msg, err := NewNotification(method, params)
NotifyBegin(n) ==
    /\ ~panicked
    /\ notifypc[n] = "idle"
    /\ \A k \in NotifySet : k < n => notifypc[k] # "idle"
    /\ OpsUsed < MaxOps
    /\ \E created \in BOOLEAN :
         notifypc' = [notifypc EXCEPT ![n] = IF created THEN "writeHeader" ELSE "createError"]
    /\ UNCHANGED <<nextID, handlers, chans, callpc, callID, callResp, callRet, stdout,
                   peerSent, stdin, stdinOpen, loopVars, notifVars, panicked, codecVars, lifeVars>>

\* WriteMessage(c.stdin, msg): fmt.Fprintf(w, "Content-Length: ...")
NotifyWriteHeader(n) ==
    /\ ~panicked
    /\ notifypc[n] = "writeHeader"
    /\ IF stdinOpen
       THEN /\ stdin' = Append(stdin, Chunk("header", "notify", n, Notification("notify")))
            /\ notifypc' = [notifypc EXCEPT ![n] = "writeBody"]
       ELSE /\ stdin' = stdin
            /\ notifypc' = [notifypc EXCEPT ![n] = "sendError"]
    /\ UNCHANGED <<nextID, handlers, chans, callpc, callID, callResp, callRet, stdout,
                   peerSent, stdinOpen, loopVars, notifVars, panicked, codecVars, lifeVars>>

\* WriteMessage(c.stdin, msg): w.Write(data)
NotifyWriteBody(n) ==
    /\ ~panicked
    /\ notifypc[n] = "writeBody"
    /\ IF stdinOpen
       THEN /\ stdin' = Append(stdin, Chunk("body", "notify", n, Notification("notify")))
            /\ notifypc' = [notifypc EXCEPT ![n] = "done"]
       ELSE /\ stdin' = stdin
            /\ notifypc' = [notifypc EXCEPT ![n] = "sendError"]
    /\ UNCHANGED <<nextID, handlers, chans, callpc, callID, callResp, callRet, stdout,
                   peerSent, stdinOpen, loopVars, notifVars, panicked, codecVars, lifeVars>>

\* Variant in which the loop reads on while a request handler is running.
LoopReadyDuringHandler(pc) == pc \in {"read", "handler"}
\* for { msg, err := ReadMessage(c.stdout) ... }: the loop reads the next
\* message only at the top of an iteration, the handler call and the response
\* write of the previous one being statements of the same iteration.
LoopReady(pc) == pc = "read"

\* --------------------------------------------------------- handleMessages
\* msg, err := ReadMessage(c.stdout), then the branch the message takes up to
\* its first access to shared state: the handler lookup of a request or a
\* notification, or the table lookup of a response.
LoopRead ==
    /\ ~panicked
    /\ LoopReady(looppc)
    /\ stdout # <<>>
    /\ stdout' = Tail(stdout)
    /\ LET item == Head(stdout)
           msg == item.msg
       IN  IF item.err # <<>>
           THEN /\ looppc' = "returned"
                /\ loopEnd' = IF IsNormalClose(item.err) THEN "closed" ELSE "error"
                /\ UNCHANGED <<loopMsg, loopCh, loopResp, loopOut, decoded, spawned>>
           ELSE /\ decoded' = Append(decoded, msg)
                /\ loopEnd' = loopEnd
                /\ CASE Classify(msg) = "request" ->
                          /\ loopMsg' = msg
                          /\ loopOut' = "none"
                          /\ IF msg.method \in ServerRequestHandlers
                             THEN /\ looppc' = "handler"
                                  /\ loopResp' = loopResp
                             ELSE /\ looppc' = "writeHeader"
                                  /\ loopResp' = ResponseFor(msg, FALSE, "none")
                          /\ UNCHANGED <<loopCh, spawned>>
                     [] Classify(msg) = "notification" ->
                          /\ spawned' = IF msg.method \in NotificationHandlers
                                        THEN spawned \cup {Len(decoded) + 1}
                                        ELSE spawned
                          /\ UNCHANGED <<looppc, loopMsg, loopCh, loopResp, loopOut>>
                     [] Classify(msg) = "response" ->
                          /\ loopMsg' = msg
                          /\ loopCh' = Lookup(handlers, IDString(msg.id))
                          /\ looppc' = IF Lookup(handlers, IDString(msg.id)) # 0
                                       THEN "send" ELSE "read"
                          /\ UNCHANGED <<loopResp, loopOut, spawned>>
                     [] OTHER ->
                          UNCHANGED <<looppc, loopMsg, loopCh, loopResp, loopOut, spawned>>
    /\ UNCHANGED <<callVars, handlers, notifypc, peerSent, stdin, stdinOpen, respLog,
                   observed, panicked, codecVars, lifeVars>>

\* result, err := handler(msg.Params) returns, and the response is built.
LoopHandlerReturn ==
    /\ ~panicked
    /\ looppc = "handler"
    /\ \E outcome \in HandlerOutcomes :
         /\ loopOut' = outcome
         /\ loopResp' = ResponseFor(loopMsg, TRUE, outcome)
    /\ looppc' = "writeHeader"
    /\ UNCHANGED <<callVars, handlers, notifypc, stdout, peerSent, stdin, stdinOpen,
                   loopMsg, loopCh, loopEnd, respLog, decoded, notifVars, panicked, codecVars, lifeVars>>

\* WriteMessage(c.stdin, response): the header; a failed write is logged.
LoopWriteHeader ==
    /\ ~panicked
    /\ looppc = "writeHeader"
    /\ IF stdinOpen
       THEN /\ stdin' = Append(stdin, Chunk("header", "loop", Len(respLog) + 1, loopResp))
            /\ looppc' = "writeBody"
            /\ respLog' = respLog
       ELSE /\ stdin' = stdin
            /\ looppc' = "read"
            /\ respLog' = Append(respLog, [id |-> loopResp.id, ok |-> FALSE])
    /\ UNCHANGED <<callVars, handlers, notifypc, stdout, peerSent, stdinOpen,
                   loopMsg, loopCh, loopResp, loopOut, loopEnd, decoded, notifVars, panicked,
                   codecVars, lifeVars>>

\* WriteMessage(c.stdin, response): the body; then `continue`.
LoopWriteBody ==
    /\ ~panicked
    /\ looppc = "writeBody"
    /\ IF stdinOpen
       THEN /\ stdin' = Append(stdin, Chunk("body", "loop", Len(respLog) + 1, loopResp))
            /\ respLog' = Append(respLog, [id |-> loopResp.id, ok |-> TRUE])
       ELSE /\ stdin' = stdin
            /\ respLog' = Append(respLog, [id |-> loopResp.id, ok |-> FALSE])
    /\ looppc' = "read"
    /\ UNCHANGED <<callVars, handlers, notifypc, stdout, peerSent, stdinOpen,
                   loopMsg, loopCh, loopResp, loopOut, loopEnd, decoded, notifVars, panicked,
                   codecVars, lifeVars>>

\* ch <- msg: panics on a closed channel, blocks while the buffer is full.
LoopSend ==
    /\ ~panicked
    /\ looppc = "send"
    /\ chans[loopCh].closed \/ Len(chans[loopCh].buf) < ChanCap
    /\ IF chans[loopCh].closed
       THEN /\ panicked' = TRUE
            /\ UNCHANGED <<chans, looppc>>
       ELSE /\ chans' = [chans EXCEPT ![loopCh].buf = Append(@, loopMsg)]
            /\ looppc' = "close"
            /\ panicked' = panicked
    /\ UNCHANGED <<nextID, callpc, callID, callResp, callRet, handlers, notifypc, stdout,
                   peerSent, stdin, stdinOpen, loopMsg, loopCh, loopResp, loopOut, loopEnd,
                   respLog, decoded, notifVars, codecVars, lifeVars>>

\* close(ch): panics on a closed channel.
LoopClose ==
    /\ ~panicked
    /\ looppc = "close"
    /\ IF chans[loopCh].closed
       THEN /\ panicked' = TRUE
            /\ UNCHANGED <<chans, looppc>>
       ELSE /\ chans' = [chans EXCEPT ![loopCh].closed = TRUE]
            /\ looppc' = "read"
            /\ panicked' = panicked
    /\ UNCHANGED <<nextID, callpc, callID, callResp, callRet, handlers, notifypc, stdout,
                   peerSent, stdin, stdinOpen, loopMsg, loopCh, loopResp, loopOut, loopEnd,
                   respLog, decoded, notifVars, codecVars, lifeVars>>

\* go handler(msg.Params): a launched notification handler runs.
RunNotificationHandler(g) ==
    /\ ~panicked
    /\ g \in spawned
    /\ spawned' = spawned \ {g}
    /\ observed' = Append(observed, g)
    /\ UNCHANGED <<callVars, handlers, notifypc, stdout, peerSent, stdin, stdinOpen,
                   loopVars, panicked, codecVars, lifeVars>>

\* --------------------------------------------------------------- the peer
PeerSend(m) ==
    /\ ~panicked
    /\ looppc # "returned"
    /\ ~StreamEnded
    /\ Len(stdout) < MaxQueue
    /\ OpsUsed < MaxOps
    /\ peerSent' = peerSent + 1
    /\ stdout' = Append(stdout, MsgItem(m))
    /\ UNCHANGED <<callVars, handlers, notifypc, stdin, stdinOpen, loopVars, notifVars,
                   panicked, codecVars, lifeVars>>

\* The inbound stream ends or is corrupted: the next ReadMessage fails.
PeerEnd(e) ==
    /\ ~panicked
    /\ looppc # "returned"
    /\ ~StreamEnded
    /\ Len(stdout) < MaxQueue
    /\ OpsUsed < MaxOps
    /\ peerSent' = peerSent + 1
    /\ stdout' = Append(stdout, ErrItem(e))
    /\ UNCHANGED <<callVars, handlers, notifypc, stdin, stdinOpen, loopVars,
                   notifVars, panicked, codecVars, lifeVars>>

\* The peer closes its end of the outbound stream: writes fail from now on.
PeerCloseStdin ==
    /\ ~panicked
    /\ stdinOpen
    /\ OpsUsed < MaxOps
    /\ stdinOpen' = FALSE
    /\ UNCHANGED <<callVars, handlers, notifypc, stdout, peerSent, stdin, loopVars,
                   notifVars, panicked, codecVars, lifeVars>>

Next ==
    \/ \E c \in CallSet : CallBegin(c)
    \/ \E c \in CallSet : CallRegister(c)
    \/ \E c \in CallSet : CallWriteHeader(c)
    \/ \E c \in CallSet : CallWriteBody(c)
    \/ \E c \in CallSet : CallReceive(c)
    \/ \E c \in CallSet : CallTimeout(c)
    \/ \E c \in CallSet : CallDeferred(c)
    \/ \E n \in NotifySet : NotifyBegin(n)
    \/ \E n \in NotifySet : NotifyWriteHeader(n)
    \/ \E n \in NotifySet : NotifyWriteBody(n)
    \/ LoopRead
    \/ LoopHandlerReturn
    \/ LoopWriteHeader
    \/ LoopWriteBody
    \/ LoopSend
    \/ LoopClose
    \/ \E g \in spawned : RunNotificationHandler(g)
    \/ \E m \in PeerMsgs : PeerSend(m)
    \/ \E e \in ReadErrors : PeerEnd(e)
    \/ PeerCloseStdin

Spec == Init /\ [][Next]_vars


\* ===================================================================== claims
\* Helpers of the claims' formulas (read from the state, not from the code's
\* operators).
InTable(c) == callpc[c] \in {"writeHeader", "writeBody", "wait", "deferred"}
Returned(c) == callpc[c] = "done"
IsPeerRequest(m) == m.method # "" /\ m.id # NoID
IsPeerNotification(m) == m.method # "" /\ m.id = NoID
IsResponse(m) == m.method = "" /\ m.id # NoID
IDs(seq) == [i \in 1..Len(seq) |-> seq[i].id]
ChunkIDs(seq) == [i \in 1..Len(seq) |-> seq[i].msg.id]
IsLoopBody(ch) == ch.by = "loop" /\ ch.part = "body"
IsOK(r) == r.ok
LoopMidRequest == looppc \in {"handler", "writeHeader", "writeBody"}
\* The loop takes the step that reads the head of the inbound stream.
LoopReads == looppc = "read" /\ stdout # <<>> /\ stdout' = Tail(stdout)

\* C1: every Call that completes by delivery has received a response whose id
\* is the id it sent, whatever the order in which responses arrive; and a
\* response waiting in a Call's channel bears that Call's id.
C1_OwnResponse ==
    \A c \in CallSet :
        /\ callResp[c] # NoMsg => callResp[c].id = callID[c]
        /\ \A i \in 1..Len(chans[c].buf) : chans[c].buf[i].id = callID[c]

\* C1 witness: two Calls are in flight, the response of the later one arrived
\* first and was received by it while the earlier one still waits.
C1_Witness ==
    \E c, d \in CallSet :
        /\ c < d
        /\ callpc[c] = "wait"
        /\ callResp[c] = NoMsg
        /\ callpc[d] = "done"
        /\ callResp[d] # NoMsg
        /\ callResp[d].id = callID[d]

\* C2 (as claimed): a second response bearing an id already delivered finds no
\* entry and is discarded: the loop never holds a channel it has already
\* delivered to and closed, and it does not crash.
C2_DuplicateDiscarded ==
    /\ ~panicked
    /\ looppc = "send" => ~chans[loopCh].closed

\* C3: a Call that times out returns a timeout error; the step, and the
\* deferred removal of its own entry, leave every other Call's entry and
\* channel as they were, and leave the loop where it was; the loop's send to a
\* looked-up channel can always proceed (it never blocks on an abandoned Call).
C3_TimeoutStep ==
    \A c \in CallSet :
        (callpc[c] \in {"wait", "deferred"} /\ callpc'[c] # callpc[c] /\ callRet'[c] = "timeout")
        => /\ \A d \in CallSet \ {c} :
                /\ chans'[d] = chans[d]
                /\ callpc'[d] = callpc[d]
                /\ (IDString(callID[d]) \in DOMAIN handlers)
                      = (IDString(callID[d]) \in DOMAIN handlers')
                /\ InTable(d) => /\ IDString(callID[d]) \in DOMAIN handlers'
                                 /\ handlers'[IDString(callID[d])] = d
           /\ chans'[c] = chans[c]
           /\ looppc' = looppc
           /\ stdout' = stdout
           /\ ~panicked'
C3_LoopNotBlocked ==
    looppc = "send" => chans[loopCh].closed \/ Len(chans[loopCh].buf) < ChanCap
\* C3: the two parts above, in every state and at every step.
C3_TimeoutIndependent == [](C3_LoopNotBlocked) /\ [][C3_TimeoutStep]_vars

\* C3 witness: a Call has timed out and returned, its response arrived after
\* that and is being put into its abandoned channel, and another Call is
\* pending with its entry in place.
C3_Witness ==
    \E c, d \in CallSet :
        /\ c # d
        /\ callRet[c] = "timeout"
        /\ looppc = "close"
        /\ loopCh = c
        /\ chans[c].buf # <<>>
        /\ callpc[d] = "wait"
        /\ IDString(callID[d]) \in DOMAIN handlers

\* C4: the loop reading a response whose id is not in the table changes
\* neither the table, nor any channel, nor the outbound stream, and goes on to
\* read the next message.
C4_UnmatchedStep ==
    ( /\ LoopReads
      /\ Head(stdout).err = <<>>
      /\ IsResponse(Head(stdout).msg)
      /\ IDString(Head(stdout).msg.id) \notin DOMAIN handlers )
    => /\ handlers' = handlers
       /\ chans' = chans
       /\ stdin' = stdin
       /\ looppc' = "read"
       /\ ~panicked'
\* C4: every step of the loop that reads an unmatched response is such a step.
C4_UnmatchedDropped == [][C4_UnmatchedStep]_vars

\* C4 witness: the loop has dropped the late response of a Call that timed out
\* and returned, while another Call is pending, and is reading again.
C4_Witness ==
    \E c, d \in CallSet :
        /\ c # d
        /\ callRet[c] = "timeout"
        /\ callpc[c] = "done"
        /\ decoded # <<>>
        /\ decoded[Len(decoded)] = loopMsg
        /\ IsResponse(loopMsg)
        /\ loopMsg.id = callID[c]
        /\ loopCh = 0
        /\ looppc = "read"
        /\ callpc[d] = "wait"
        /\ chans[d] = NewChan

\* C5: the table holds exactly the ids of the Calls between their registration
\* and their return, so it is empty when every Call has returned.
C5_TableMatchesCalls ==
    /\ DOMAIN handlers = {IDString(callID[c]) : c \in {x \in CallSet : InTable(x)}}
    /\ \A c \in CallSet : InTable(c) => handlers[IDString(callID[c])] = c
    /\ (\A c \in CallSet : callpc[c] \in {"idle", "done"}) => handlers = EmptyTable

\* C5 witness: several Calls have all returned, by different ways (a delivered
\* response, a timeout or a failed write).
C5_Witness ==
    /\ nextID >= 2
    /\ \A c \in CallSet : callpc[c] \in {"idle", "done"}
    /\ \E c \in CallSet : callRet[c] \in {"ok", "requestFailed", "unmarshalError"}
    /\ \E c \in CallSet : callRet[c] \in {"timeout", "sendError"}

\* C6 (as claimed): between two messages, the responses written by the loop
\* to the outbound stream are exactly the peer requests decoded, id for id.
C6_ExactlyOneResponseWritten ==
    ~LoopMidRequest => ChunkIDs(SelectSeq(stdin, IsLoopBody)) = IDs(SelectSeq(decoded, IsPeerRequest))

\* C6 (amended): for every peer request decoded exactly one response bearing
\* its id is handed to WriteMessage, and it is on the outbound stream exactly
\* once unless that write failed; nothing is written for a notification.
C6_OneResponseAttempted ==
    LET reqs == IDs(SelectSeq(decoded, IsPeerRequest))
        done == IF LoopMidRequest THEN SubSeq(reqs, 1, Len(reqs) - 1) ELSE reqs
    IN  /\ LoopMidRequest => reqs # <<>> /\ loopMsg.id = reqs[Len(reqs)]
        /\ IDs(respLog) = done
        /\ ChunkIDs(SelectSeq(stdin, IsLoopBody)) = IDs(SelectSeq(respLog, IsOK))
        /\ \A i \in 1..Len(respLog) : ~respLog[i].ok => ~stdinOpen
        /\ \A i \in 1..Len(stdin) : stdin[i].by = "loop" => IsResponse(stdin[i].msg)

\* C6 witness: the loop has decoded a request and a notification and is
\* reading again, with the one response written.
C6_Witness ==
    /\ looppc = "read"
    /\ \E i \in 1..Len(decoded) : IsPeerNotification(decoded[i])
    /\ \E i \in 1..Len(decoded) : IsPeerRequest(decoded[i])
    /\ Len(respLog) = 1
    /\ respLog[1].ok
    /\ Len(SelectSeq(stdin, IsLoopBody)) = 1


\* C7 (as claimed): the response the loop writes for a peer request is decided
\* by the handler lookup: no handler gives -32601 "method not found: <method>",
\* a handler returning an error gives -32603 with its text, and a handler
\* returning no error gives a result and no error.
C7_ResponseByLookup ==
    looppc \in {"writeHeader", "writeBody"} =>
        /\ loopResp.id = loopMsg.id
        /\ loopMsg.method \notin ServerRequestHandlers =>
              /\ loopResp.code = MethodNotFound
              /\ loopResp.text = <<"method ", "not ", "found: ", loopMsg.method>>
        /\ loopMsg.method \in ServerRequestHandlers /\ loopOut = "error" =>
              /\ loopResp.code = InternalError
              /\ loopResp.text = HandlerErrorText
        /\ loopMsg.method \in ServerRequestHandlers /\ loopOut # "error" =>
              /\ loopResp.code = 0
              /\ loopResp.result # ""

\* C7 (amended): as claimed, except that a handler returning no error gives a
\* result and no error only when its result can be marshalled; a result that
\* cannot gives -32603 "failed to marshal response: ...". After the response
\* (whatever it is, written or not) the loop reads the next message.
C7_ResponseState ==
    looppc \in {"writeHeader", "writeBody"} =>
        /\ loopResp.id = loopMsg.id
        /\ loopResp.method = ""
        /\ loopMsg.method \notin ServerRequestHandlers =>
              /\ loopResp.code = MethodNotFound
              /\ loopResp.text = <<"method ", "not ", "found: ", loopMsg.method>>
              /\ loopResp.result = ""
        /\ loopMsg.method \in ServerRequestHandlers /\ loopOut = "error" =>
              /\ loopResp.code = InternalError
              /\ loopResp.text = HandlerErrorText
              /\ loopResp.result = ""
        /\ loopMsg.method \in ServerRequestHandlers /\ loopOut = "unmarshalable" =>
              /\ loopResp.code = InternalError
              /\ loopResp.text = MarshalErrorText
              /\ loopResp.result = ""
        /\ loopMsg.method \in ServerRequestHandlers /\ loopOut = "result" =>
              /\ loopResp.code = 0
              /\ loopResp.text = <<>>
              /\ loopResp.result # ""
C7_LoopContinues ==
    (looppc \in {"writeHeader", "writeBody"} /\ looppc' # looppc)
    => looppc' \in {"writeBody", "read"} /\ ~panicked'
\* C7 (amended): the response is as above in every state, and the loop goes on.
C7_ResponseByLookupOrMarshal == [](C7_ResponseState) /\ [][C7_LoopContinues]_vars

\* C7 witness: a request for an unregistered method was answered with -32601,
\* and after it a response was decoded and delivered to the Call it answers.
C7_Witness ==
    /\ Len(decoded) >= 2
    /\ IsPeerRequest(decoded[1])
    /\ decoded[1].method \notin ServerRequestHandlers
    /\ respLog # <<>>
    /\ respLog[1].ok
    /\ \E i \in 1..Len(stdin) :
          /\ IsLoopBody(stdin[i])
          /\ stdin[i].msg.code = MethodNotFound
          /\ stdin[i].msg.id = decoded[1].id
    /\ IsResponse(decoded[2])
    /\ \E c \in CallSet : callResp[c] = decoded[2]

\* C8 (as claimed): the outbound stream is a concatenation of whole frames:
\* every header is followed at once by its own body (unless it is the last
\* thing written), and every body follows its own header.
C8_WholeFrames ==
    \A i \in 1..Len(stdin) :
        /\ (stdin[i].part = "header" /\ i < Len(stdin))
              => stdin[i + 1] = [stdin[i] EXCEPT !.part = "body"]
        /\ stdin[i].part = "body"
              => i > 1 /\ stdin[i - 1] = [stdin[i] EXCEPT !.part = "header"]


\* ============================================================ the wire codec
\* A stream is a sequence of bytes; a byte is a one-element string, except
\* that the JSON encoding of a Message is kept symbolic (one symbol per token).
MaxFrames == 2

ContentLengthPrefix ==
    <<"C", "o", "n", "t", "e", "n", "t", "-", "L", "e", "n", "g", "t", "h", ":", " ">>
CRLF == <<"\r", "\n">>
DigitChars == {ToString(d) : d \in 0..9}
DigitVal(ch) == CHOOSE d \in 0..9 : ToString(d) = ch

\* fmt's %d of a non-negative int.
RECURSIVE Digits(_)
Digits(n) == IF n < 10 THEN <<ToString(n)>> ELSE Digits(n \div 10) \o <<ToString(n % 10)>>

\* json.Marshal(msg): "{", then the fields present, then "}".
Marshal(m) ==
    <<"{">>
    \o (IF m.id # NoID THEN <<"i", ToString(m.id)>> ELSE <<>>)
    \o (IF m.method # "" THEN <<"m", m.method>> ELSE <<>>)
    \o (IF m.code # 0 THEN <<"e", ToString(m.code)>> \o m.text ELSE <<>>)
    \o (IF m.result # "" THEN <<"r", m.result>> ELSE <<>>)
    \o <<"}">>

\* The messages the codec is exercised on: a request, a notification, a
\* result response, and an error response whose body is ten bytes or longer.
CodecMsgs ==
    { Request(1, "workspace/applyEdit"),
      Notification("textDocument/publishDiagnostics"),
      ResultResponse(2, "answer"),
      ErrorResponse(3, -32000, <<"the ", "peer ", "could ", "not ", "answer ", "this">>) }

\* json.Unmarshal(content, &msg): [ok, msg, err]
Unmarshal(content) ==
    IF \E m \in CodecMsgs : Marshal(m) = content
    THEN [ok |-> TRUE, msg |-> CHOOSE m \in CodecMsgs : Marshal(m) = content, err |-> <<>>]
    ELSE IF content = <<>> \/ content[Len(content)] # "}"
         THEN [ok |-> FALSE, msg |-> NoMsg, err |-> JsonSyntaxError]
         ELSE [ok |-> FALSE, msg |-> NoMsg, err |-> JsonInvalidCharacter]

\* A header that prints only the last digit of the length.
HeaderOneDigit(data) == ContentLengthPrefix \o <<ToString(Len(data) % 10)>> \o CRLF \o CRLF
\* WriteMessage: the header it prints for a body.
Header(data) == ContentLengthPrefix \o Digits(Len(data)) \o CRLF \o CRLF

\* WriteMessage(w, msg): the bytes it puts on the stream.
Frame(m) == Header(Marshal(m)) \o Marshal(m)

\* bufio.Reader.ReadString('\n'): the index of the first "\n", 0 if there is none.
NewlineAt(buf) ==
    IF \E i \in 1..Len(buf) : buf[i] = "\n"
    THEN CHOOSE i \in 1..Len(buf) : buf[i] = "\n" /\ \A j \in 1..(i - 1) : buf[j] # "\n"
    ELSE 0

\* strings.TrimSpace(line)
IsSpace(ch) == ch \in {" ", "\r", "\n", "\t"}
RECURSIVE TrimLeft(_)
TrimLeft(line) ==
    IF line # <<>> /\ IsSpace(Head(line)) THEN TrimLeft(Tail(line)) ELSE line
RECURSIVE TrimRight(_)
TrimRight(line) ==
    IF line # <<>> /\ IsSpace(line[Len(line)])
    THEN TrimRight(SubSeq(line, 1, Len(line) - 1)) ELSE line
TrimSpace(line) == TrimRight(TrimLeft(line))

\* strings.HasPrefix(line, prefix)
HasPrefix(line, prefix) ==
    Len(line) >= Len(prefix) /\ SubSeq(line, 1, Len(prefix)) = prefix

\* The decimal digits a scan of %d consumes, as a number.
RECURSIVE ScanDigits(_, _)
ScanDigits(text, acc) ==
    IF text # <<>> /\ Head(text) \in DigitChars
    THEN ScanDigits(Tail(text), 10 * acc + DigitVal(Head(text)))
    ELSE acc

\* fmt.Sscanf(line, "Content-Length: %d", &contentLength) on a line that has
\* the prefix: an optional sign, then digits up to the first other byte.
Sscanf(line) ==
    LET rest == TrimLeft(SubSeq(line, Len(ContentLengthPrefix) + 1, Len(line)))
        signed == rest # <<>> /\ Head(rest) \in {"+", "-"}
        digits == IF signed THEN Tail(rest) ELSE rest
    IN  IF digits = <<>> \/ Head(digits) \notin DigitChars
        THEN [ok |-> FALSE, n |-> 0, err |-> ScanExpectedInteger]
        ELSE [ok |-> TRUE,
              n |-> IF signed /\ Head(rest) = "-"
                    THEN 0 - ScanDigits(digits, 0) ELSE ScanDigits(digits, 0),
              err |-> <<>>]

\* What ReadMessage returns: status "ok" with the message, "err" with the
\* error text and the return statement it came from (at), "block" while the
\* bytes it needs are not there and the stream is open, "panic" when make()
\* is given a negative length. rest is what it leaves unread.
ReadResult(status, at, msg, err, rest) ==
    [status |-> status, at |-> at, msg |-> msg, err |-> err, rest |-> rest]

\* ReadMessage, after the header block: io.ReadFull and json.Unmarshal.
ReadContent(buf, eof, contentLength) ==
    IF contentLength < 0 THEN ReadResult("panic", "content", NoMsg, <<>>, buf)
    ELSE IF Len(buf) < contentLength
    THEN IF ~eof THEN ReadResult("block", "content", NoMsg, <<>>, buf)
         ELSE ReadResult("err", "content", NoMsg,
                         ErrReadContent(IF buf = <<>> THEN IoEOF ELSE IoErrUnexpectedEOF), <<>>)
    ELSE LET content == SubSeq(buf, 1, contentLength)
             rest == SubSeq(buf, contentLength + 1, Len(buf))
             parsed == Unmarshal(content)
         IN  IF parsed.ok
             THEN ReadResult("ok", "return", parsed.msg, <<>>, rest)
             ELSE ReadResult("err", "unmarshal", NoMsg, ErrUnmarshal(parsed.err), rest)

\* ReadMessage: the header loop, with the content length read so far.
RECURSIVE ReadHeaders(_, _, _)
ReadHeaders(buf, eof, contentLength) ==
    LET k == NewlineAt(buf)
        line == TrimSpace(SubSeq(buf, 1, k))
        rest == SubSeq(buf, k + 1, Len(buf))
    IN  IF k = 0
        THEN IF eof THEN ReadResult("err", "header", NoMsg, ErrReadHeader(IoEOF), <<>>)
             ELSE ReadResult("block", "header", NoMsg, <<>>, buf)
        ELSE IF line = <<>> THEN ReadContent(rest, eof, contentLength)
        ELSE IF HasPrefix(line, ContentLengthPrefix)
        THEN IF Sscanf(line).ok THEN ReadHeaders(rest, eof, Sscanf(line).n)
             ELSE ReadResult("err", "length", NoMsg,
                             ErrInvalidContentLength(Sscanf(line).err), rest)
        ELSE ReadHeaders(rest, eof, contentLength)

ReadMessage(buf, eof) == ReadHeaders(buf, eof, 0)


\* Frames that WriteMessage would not write: a body that is not a Message
\* (cut short, or not JSON), a header block with no Content-Length, with a
\* length that is not a number or is negative, and a frame with one more
\* header line.
BadBodies == {<<"{", "i">>, <<"x", "}">>}
\* Frames whose header block has no Content-Length line, or one whose value
\* is not a non-negative decimal number: letters, a negative number, and
\* digits followed by a letter.
BadHeaderFrames ==
    { CRLF \o Marshal(Request(1, "workspace/applyEdit")),
      ContentLengthPrefix \o <<"a", "b">> \o CRLF \o CRLF,
      ContentLengthPrefix \o <<"-", "1">> \o CRLF \o CRLF,
      ContentLengthPrefix \o Digits(Len(Marshal(ResultResponse(2, "answer")))) \o <<"x">>
          \o CRLF \o CRLF \o Marshal(ResultResponse(2, "answer")) }
RawFrames ==
    {Header(b) \o b : b \in BadBodies}
    \cup BadHeaderFrames
    \cup { <<"X", ":", " ", "y">> \o CRLF \o Frame(ResultResponse(2, "answer")) }

engineVars ==
    <<nextID, handlers, chans, callpc, callID, callResp, callRet, notifypc, stdout,
      decoded, peerSent, stdin, stdinOpen, looppc, loopMsg, loopCh, loopResp, loopOut,
      loopEnd, respLog, spawned, observed, panicked>>

FramesOnWire == Len(written) + (IF wpending # NoMsg THEN 1 ELSE 0) + (IF tampered THEN 1 ELSE 0)

\* WriteMessage(w, msg): fmt.Fprintf(w, "Content-Length: %d\r\n\r\n", len(data))
CodecWriteHeader(m) ==
    /\ ~wireEOF
    /\ wpending = NoMsg
    /\ FramesOnWire < MaxFrames
    /\ wire' = wire \o Header(Marshal(m))
    /\ wpending' = m
    /\ UNCHANGED <<engineVars, lifeVars, wireEOF, written, tampered, rawWritten, readLog, readerEnd>>

\* WriteMessage(w, msg): w.Write(data)
CodecWriteBody ==
    /\ ~wireEOF
    /\ wpending # NoMsg
    /\ wire' = wire \o Marshal(wpending)
    /\ written' = Append(written, wpending)
    /\ wpending' = NoMsg
    /\ UNCHANGED <<engineVars, lifeVars, wireEOF, tampered, rawWritten, readLog, readerEnd>>

\* The peer writes a frame of its own making.
CodecWriteRaw(bytes) ==
    /\ ~wireEOF
    /\ wpending = NoMsg
    /\ ~tampered
    /\ FramesOnWire < MaxFrames
    /\ wire' = wire \o bytes
    /\ tampered' = TRUE
    /\ rawWritten' = bytes
    /\ UNCHANGED <<engineVars, lifeVars, wireEOF, wpending, written, readLog, readerEnd>>

\* The writing end is closed; the bytes after the first k unread ones never
\* made it onto the stream.
CodecCloseStream(k) ==
    /\ ~wireEOF
    /\ wireEOF' = TRUE
    /\ wire' = SubSeq(wire, 1, k)
    /\ tampered' = (tampered \/ k < Len(wire) \/ wpending # NoMsg)
    /\ UNCHANGED <<engineVars, lifeVars, wpending, written, rawWritten, readLog, readerEnd>>

\* handleMessages: msg, err := ReadMessage(c.stdout); on an error it logs a
\* normal close or an error, and returns.
CodecRead ==
    /\ readerEnd = "running"
    /\ LET r == ReadMessage(wire, wireEOF)
       IN  /\ r.status # "block"
           /\ wire' = r.rest
           /\ readLog' = Append(readLog, [status |-> r.status, at |-> r.at,
                                          msg |-> r.msg, err |-> r.err])
           /\ readerEnd' = CASE r.status = "ok" -> "running"
                             [] r.status = "panic" -> "panic"
                             [] OTHER -> IF IsNormalClose(r.err) THEN "closed" ELSE "error"
    /\ UNCHANGED <<engineVars, lifeVars, wireEOF, wpending, written, tampered, rawWritten>>

NextCodec ==
    \/ \E m \in CodecMsgs : CodecWriteHeader(m)
    \/ CodecWriteBody
    \/ \E bytes \in RawFrames : CodecWriteRaw(bytes)
    \/ \E k \in 0..Len(wire) : CodecCloseStream(k)
    \/ CodecRead

SpecCodec == Init /\ [][NextCodec]_vars

\* ------------------------------------------------------------ codec claims
IsRead(r) == r.status = "ok"
Msgs(log) == [i \in 1..Len(log) |-> log[i].msg]
RECURSIVE Frames(_)
Frames(msgs) == IF msgs = <<>> THEN <<>> ELSE Frame(Head(msgs)) \o Frames(Tail(msgs))

\* C9 (as claimed): the reading loop logs a normal close exactly when the read
\* failed with end of stream in the header block; a body cut short and a body
\* that does not parse are never logged as a normal close.
C9_CloseOnlyOnHeaderEOF ==
    (readerEnd \in {"closed", "error"})
    => ((readerEnd = "closed") <=> (readLog[Len(readLog)].at = "header"))

\* C10: on a stream that holds only what WriteMessage wrote, the messages read
\* so far are the messages written, in order and field for field, and the
\* bytes left unread are exactly the frames of the messages not read yet.
C10_RoundTrip ==
    ~tampered =>
        LET got == SelectSeq(readLog, IsRead)
            n == Len(got)
        IN  /\ n <= Len(written)
            /\ Msgs(got) = SubSeq(written, 1, n)
            /\ \A i \in 1..Len(readLog) : ~IsRead(readLog[i]) => i = Len(readLog) /\ wireEOF
            /\ readerEnd = "running" =>
                  wire = Frames(SubSeq(written, n + 1, Len(written)))
                         \o (IF wpending # NoMsg THEN Header(Marshal(wpending)) ELSE <<>>)

\* C10 witness: two different messages, one of them with a body of ten bytes
\* or more, were written back to back and both were read back.
C10_Witness ==
    /\ ~tampered
    /\ Len(written) = 2
    /\ written[1] # written[2]
    /\ \E i \in 1..2 : Len(Marshal(written[i])) >= 10
    /\ Len(readLog) = 2
    /\ Msgs(readLog) = written
    /\ wire = <<>>

\* ------------------------------------------------------------------ C11
\* Call returned after its select statement (not on a creation or send error).
ReturnedFromWait(c) ==
    /\ callpc[c] \in {"deferred", "done"}
    /\ callRet[c] \notin {"none", "createError", "sendError"}

\* The outcome the delivered response calls for, a successful response
\* allowing only success.
TypedOutcome(c) ==
    IF callResp[c] = NoMsg THEN callRet[c] = "timeout"
    ELSE /\ callResp[c].code = ContentModified => callRet[c] = "contentModified"
         /\ callResp[c].code = ServerCancelled => callRet[c] = "serverCancelled"
         /\ callResp[c].code \notin {0, ContentModified, ServerCancelled}
                => callRet[c] = "requestFailed"
         /\ callRet[c] = "ok" => callResp[c].code = 0

\* C11 as stated: the outcome of a Call is typed by what was delivered:
\* content-modified code -> content-modified sentinel, server-cancelled code
\* -> server-cancelled sentinel, any other code -> generic failure, no error
\* -> success, nothing delivered -> timeout; no error response is reported as
\* success and no successful response as an error.
C11_OutcomeTyped ==
    \A c \in CallSet :
        ReturnedFromWait(c) =>
            /\ TypedOutcome(c)
            /\ (callResp[c] # NoMsg /\ callResp[c].code = 0) => callRet[c] = "ok"

\* C11 amended: as C11, except that a successful response whose result does
\* not decode into the caller's result value returns a decode failure.
C11_OutcomeTypedOrDecodeFailure ==
    \A c \in CallSet :
        ReturnedFromWait(c) =>
            /\ TypedOutcome(c)
            /\ (callResp[c] # NoMsg /\ callResp[c].code = 0)
                   => callRet[c] \in {"ok", "unmarshalError"}

\* A Call has returned the server-cancelled sentinel for the response it
\* received.
C11_Witness ==
    \E c \in CallSet :
        /\ callpc[c] = "done"
        /\ callResp[c] # NoMsg
        /\ callResp[c].code = ServerCancelled
        /\ callRet[c] = "serverCancelled"

\* ------------------------------------------------------------------ C15
IsUnclassified(m) == m.method = "" /\ m.id = NoID
\* How many of the three classes a message falls in.
ClassCount(m) ==
    (IF IsPeerRequest(m) THEN 1 ELSE 0) + (IF IsPeerNotification(m) THEN 1 ELSE 0)
        + (IF IsResponse(m) THEN 1 ELSE 0)

\* C15: the step of the loop that decodes a message treats it as exactly one
\* of Peer Request (handler invoked or error response prepared), Peer
\* Notification (handler spawned if registered, nothing else) and Response
\* (table lookup, delivery or drop); a message with no method and no id is in
\* none of the classes and is dropped: no handler, no delivery, no response,
\* and the loop reads on.
C15_ClassifyStep ==
    (LoopReads /\ Head(stdout).err = <<>>) =>
        LET m == Head(stdout).msg
            noDelivery == chans' = chans /\ handlers' = handlers
            noResponse == stdin' = stdin /\ loopResp' = loopResp
        IN  /\ decoded' = Append(decoded, m)
            /\ ClassCount(m) = (IF IsUnclassified(m) THEN 0 ELSE 1)
            /\ ~panicked'
            /\ loopEnd' = loopEnd
            /\ IsPeerRequest(m) =>
                   /\ loopMsg' = m
                   /\ looppc' = (IF m.method \in ServerRequestHandlers
                                 THEN "handler" ELSE "writeHeader")
                   /\ looppc' = "writeHeader" => loopResp'.id = m.id /\ loopResp'.code # 0
                   /\ noDelivery /\ spawned' = spawned /\ loopCh' = loopCh
            /\ IsPeerNotification(m) =>
                   /\ looppc' = "read"
                   /\ spawned' = (IF m.method \in NotificationHandlers
                                  THEN spawned \cup {Len(decoded')} ELSE spawned)
                   /\ noDelivery /\ noResponse /\ loopCh' = loopCh
            /\ IsResponse(m) =>
                   /\ looppc' \in {"send", "read"}
                   /\ looppc' = "send" <=> IDString(m.id) \in DOMAIN handlers
                   /\ noDelivery /\ noResponse /\ spawned' = spawned
            /\ IsUnclassified(m) =>
                   /\ looppc' = "read"
                   /\ noDelivery /\ noResponse /\ spawned' = spawned /\ loopCh' = loopCh
\* C15: every decoding step of the loop is such a step.
C15_ExactlyOneClass == [][C15_ClassifyStep]_vars

\* C15 witness: the loop decoded a message with neither method nor id, dropped
\* it and has decoded the next message after it.
C15_Witness ==
    /\ Len(decoded) >= 2
    /\ IsUnclassified(decoded[1])
    /\ ~IsUnclassified(decoded[2])
    /\ respLog = <<>> \/ IsPeerRequest(decoded[2])
    /\ ~panicked

\* ------------------------------------------------------------------ C16
\* A response for a Call that is waiting for it is at the head of the inbound
\* stream while the loop is inside a request handler.
ResponseBehindHandler ==
    /\ looppc = "handler"
    /\ stdout # <<>>
    /\ Head(stdout).err = <<>>
    /\ IsResponse(Head(stdout).msg)
    /\ \E c \in CallSet :
          /\ callpc[c] = "wait"
          /\ callID[c] = Head(stdout).msg.id
          /\ IDString(callID[c]) \in DOMAIN handlers

\* C16 as stated: a slow request handler does not block responses: while the
\* handler has not returned, the loop can still take the response that is on
\* the inbound stream for a pending Call and deliver it.
C16_ResponsesNotBlocked == ResponseBehindHandler => ENABLED LoopRead

\* While the handler has not returned, a step reads nothing from the inbound
\* stream and puts nothing into any Call's channel.
C16_HandlerStep ==
    (looppc = "handler" /\ looppc' = "handler") =>
        /\ decoded' = decoded
        /\ Len(stdout') >= Len(stdout)
        /\ \A c \in CallSet :
              /\ Len(chans'[c].buf) <= Len(chans[c].buf)
              /\ chans'[c].closed = chans[c].closed
\* C16 amended: a slow request handler blocks every subsequent inbound
\* message, responses included: the only step of the loop out of the handler
\* is the handler's return, and until then nothing is read or delivered.
C16_HandlerBlocksLoop ==
    [][ /\ C16_HandlerStep
        /\ (looppc = "handler" /\ looppc' # "handler") => looppc' = "writeHeader" /\ decoded' = decoded
      ]_vars

\* C16 witness: the response of a waiting Call sits on the inbound stream
\* behind a running request handler.
C16_Witness == ResponseBehindHandler /\ ~panicked

\* ------------------------------------------------------------------ C17
\* C17: notifications of one method are observed by its handler in the order
\* they were decoded: of two handler invocations for the same method, the one
\* that ran first is for the notification decoded first.
C17_ObservedInDecodeOrder ==
    \A i, j \in 1..Len(observed) :
        (i < j /\ decoded[observed[i]].method = decoded[observed[j]].method)
            => observed[i] < observed[j]

\* ------------------------------------------------------------------ C18
\* The stream holds nothing but one frame with a missing or invalid
\* Content-Length, whole or cut short.
OnlyBadHeaderFrame ==
    /\ rawWritten \in BadHeaderFrames
    /\ written = <<>>
    /\ wpending = NoMsg

\* C18: decoding a frame whose header block has no Content-Length, or one
\* that is not a valid non-negative decimal byte count, fails with a
\* malformed-header error: every ReadMessage on such a stream returns an
\* error found in the header block, none returns a message, none crashes.
C18_BadHeaderIsError ==
    OnlyBadHeaderFrame =>
        /\ readerEnd # "panic"
        /\ \A i \in 1..Len(readLog) :
              /\ readLog[i].status = "err"
              /\ readLog[i].at \in {"header", "length"}

\* =============================================================== lifecycle
\* main, the parent monitor, the trigger goroutine and cleanup (src/main.go).
\* The session's peer is seen here only through what a write to its input
\* pipe does and whether it answers the shutdown request.

\* Parent process identifiers the operating system may report.
PPIDs == {InitPid, 5, 7}

\* if currentPpid != ppid && (currentPpid == 1 || ppid == 1)
ParentDied(current, startup) ==
    current # startup /\ (current = InitPid \/ startup = InitPid)

\* WriteMessage on the peer's input pipe: it fails once the pipe is closed on
\* either side, blocks while the pipe is full and the peer does not read, and
\* succeeds otherwise. Neither Notify nor Call gives the write a deadline.
WriteOutcome(mode, closed, free) ==
    IF closed \/ mode = "exited" THEN "error"
    ELSE IF mode = "stalled" /\ free = 0 THEN "block"
    ELSE "ok"
\* The room left in the pipe after a successful write.
PipeAfter(mode, free) == IF mode = "stalled" THEN free - 1 ELSE free

\* Variant of CleanupNext that gives up the remaining stages on a failure.
CleanupNextAbortOnError(stage, result) ==
    IF result = "error" THEN "checkDone"
    ELSE CASE stage = "closeFiles" -> "shutdown"
           [] stage = "wait" -> "exit"
           [] stage = "exit" -> "close"
           [] OTHER -> "checkDone"
\* cleanup: the statement that follows each stage; a stage's error is logged
\* and nothing else.
CleanupNext(stage, result) ==
    CASE stage = "closeFiles" -> "shutdown"
      [] stage = "wait" -> "exit"
      [] stage = "exit" -> "close"
      [] OTHER -> "checkDone"

\* The process runs: main has not called os.Exit and no goroutine panicked.
Running == mainpc # "exited" /\ doneClosed < 2

mainVars == <<mainpc, lspClient, spawnedProcs, openFiles>>
monVars == <<osPpid, ppid, currentPpid, monpc, parentDeath>>
trigVars == <<sigChan, trigpc>>
cleanupVars == <<clpc, stages, failed, waitEnd, shpc, closeCalls, doneClosed>>
peerVars == <<peerMode, pipeFree>>

\* ------------------------------------------------------------------- main
\* initializeLSP up to s.lspClient = client: os.Chdir and lsp.NewClient, which
\* spawns the language server, may fail.
MainNewClient ==
    /\ Running
    /\ mainpc = "newClient"
    /\ \/ /\ lspClient' = TRUE
          /\ spawnedProcs' = spawnedProcs + 1
          /\ mainpc' = "initialize"
       \/ /\ mainpc' = "failed"
          /\ UNCHANGED <<lspClient, spawnedProcs>>
    /\ UNCHANGED <<engineVars, codecVars, openFiles, monVars, trigVars, cleanupVars, peerVars>>

\* InitializeLSPClient, openInitialFiles, WaitForServerReady, registerTools.
MainInitialize ==
    /\ Running
    /\ mainpc = "initialize"
    /\ \/ /\ mainpc' = "serve"
          /\ \E n \in 0..MaxOpenFiles : openFiles' = n
       \/ /\ mainpc' = "failed"
          /\ openFiles' = openFiles
    /\ UNCHANGED <<engineVars, codecVars, lspClient, spawnedProcs, monVars, trigVars,
                   cleanupVars, peerVars>>

\* server.ServeStdio returns, with or without an error.
MainServeReturns ==
    /\ Running
    /\ mainpc = "serve"
    /\ \E next \in {"waitDone", "failed"} : mainpc' = next
    /\ UNCHANGED <<engineVars, codecVars, lspClient, spawnedProcs, openFiles, monVars,
                   trigVars, cleanupVars, peerVars>>

\* if err := srv.start(); err != nil { cleanup(srv, done) ...
MainStartFailed ==
    /\ Running
    /\ mainpc = "failed"
    /\ mainpc' = "cleanup"
    /\ clpc' = [clpc EXCEPT !["main"] = "check"]
    /\ UNCHANGED <<engineVars, codecVars, lspClient, spawnedProcs, openFiles, monVars,
                   trigVars, stages, failed, waitEnd, shpc, closeCalls, doneClosed, peerVars>>

\* ... os.Exit(1) } once cleanup has returned.
MainExitAfterCleanup ==
    /\ Running
    /\ mainpc = "cleanup"
    /\ clpc["main"] = "returned"
    /\ mainpc' = "exited"
    /\ UNCHANGED <<engineVars, codecVars, lspClient, spawnedProcs, openFiles, monVars,
                   trigVars, cleanupVars, peerVars>>

\* <-done; os.Exit(0)
MainDone ==
    /\ Running
    /\ mainpc = "waitDone"
    /\ doneClosed >= 1
    /\ mainpc' = "exited"
    /\ UNCHANGED <<engineVars, codecVars, lspClient, spawnedProcs, openFiles, monVars,
                   trigVars, cleanupVars, peerVars>>

\* --------------------------------------------------------- parent monitor
\* ppid := os.Getppid()
MonitorStart ==
    /\ Running
    /\ monpc = "start"
    /\ ppid' = osPpid
    /\ monpc' = "loop"
    /\ UNCHANGED <<engineVars, codecVars, mainVars, osPpid, currentPpid, parentDeath,
                   trigVars, cleanupVars, peerVars>>

\* case <-ticker.C: the sample, the test, close(parentDeath) and return.
MonitorTick ==
    /\ Running
    /\ monpc = "loop"
    /\ currentPpid' = osPpid
    /\ IF ParentDied(osPpid, ppid)
       THEN /\ parentDeath' = parentDeath + 1
            /\ monpc' = "returned"
       ELSE UNCHANGED <<parentDeath, monpc>>
    /\ UNCHANGED <<engineVars, codecVars, mainVars, osPpid, ppid, trigVars, cleanupVars,
                   peerVars>>

\* case <-done: return
MonitorDone ==
    /\ Running
    /\ monpc = "loop"
    /\ doneClosed >= 1
    /\ monpc' = "returned"
    /\ UNCHANGED <<engineVars, codecVars, mainVars, osPpid, ppid, currentPpid, parentDeath,
                   trigVars, cleanupVars, peerVars>>

\* The parent exits and the operating system gives the process another one:
\* a subreaper, or init, which is nobody's child. The identifier is of
\* interest for as long as the monitor samples it.
Reparent(p) ==
    /\ Running
    /\ monpc # "returned"
    /\ osPpid # InitPid
    /\ p > osPpid \/ p = InitPid
    /\ osPpid' = p
    /\ UNCHANGED <<engineVars, codecVars, mainVars, ppid, currentPpid, monpc, parentDeath,
                   trigVars, cleanupVars, peerVars>>

\* ------------------------------------------------------ shutdown triggers
\* SIGINT or SIGTERM is delivered into sigChan (capacity 1; signal.Notify
\* drops a signal when the channel is full).
SignalArrives ==
    /\ Running
    /\ sigChan = 0
    /\ trigpc = "select"
    /\ sigChan' = 1
    /\ UNCHANGED <<engineVars, codecVars, mainVars, monVars, trigpc, cleanupVars, peerVars>>

\* case sig := <-sigChan: cleanup(srv, done)
TriggerOnSignal ==
    /\ Running
    /\ trigpc = "select"
    /\ sigChan = 1
    /\ sigChan' = 0
    /\ trigpc' = "cleanup"
    /\ clpc' = [clpc EXCEPT !["trigger"] = "check"]
    /\ UNCHANGED <<engineVars, codecVars, mainVars, monVars, stages, failed, waitEnd, shpc,
                   closeCalls, doneClosed, peerVars>>

\* case <-parentDeath: cleanup(srv, done)
TriggerOnParentDeath ==
    /\ Running
    /\ trigpc = "select"
    /\ parentDeath >= 1
    /\ trigpc' = "cleanup"
    /\ clpc' = [clpc EXCEPT !["trigger"] = "check"]
    /\ UNCHANGED <<engineVars, codecVars, mainVars, monVars, sigChan, stages, failed,
                   waitEnd, shpc, closeCalls, doneClosed, peerVars>>

\* ---------------------------------------------------------------- cleanup
\* if s.lspClient != nil {
CleanupCheck(i) ==
    /\ Running
    /\ clpc[i] = "check"
    /\ clpc' = [clpc EXCEPT ![i] = IF lspClient THEN "closeFiles" ELSE "checkDone"]
    /\ UNCHANGED <<engineVars, codecVars, mainVars, monVars, trigVars, stages, failed,
                   waitEnd, shpc, closeCalls, doneClosed, peerVars>>

\* s.lspClient.CloseAllFiles(ctx): one notification written per open file.
CleanupCloseFiles(i) ==
    /\ Running
    /\ clpc[i] = "closeFiles"
    /\ LET out == IF openFiles = 0 THEN "ok"
                  ELSE WriteOutcome(peerMode, closeCalls > 0, pipeFree)
       IN  /\ out # "block"
           /\ stages' = [stages EXCEPT ![i] = Append(@, "closeFiles")]
           /\ failed' = [failed EXCEPT ![i] = IF out = "error" THEN @ \cup {"closeFiles"} ELSE @]
           /\ openFiles' = IF out = "ok" THEN 0 ELSE openFiles
           /\ pipeFree' = IF openFiles > 0 /\ out = "ok"
                          THEN PipeAfter(peerMode, pipeFree) ELSE pipeFree
           /\ clpc' = [clpc EXCEPT ![i] = CleanupNext("closeFiles", out)]
    /\ UNCHANGED <<engineVars, codecVars, mainpc, lspClient, spawnedProcs, monVars, trigVars,
                   waitEnd, shpc, closeCalls, doneClosed, peerMode>>

\* go func() { s.lspClient.Shutdown(shutdownCtx); close(shutdownDone) }()
CleanupSpawnShutdown(i) ==
    /\ Running
    /\ clpc[i] = "shutdown"
    /\ stages' = [stages EXCEPT ![i] = Append(@, "shutdown")]
    /\ shpc' = [shpc EXCEPT ![i] = "write"]
    /\ clpc' = [clpc EXCEPT ![i] = "wait"]
    /\ UNCHANGED <<engineVars, codecVars, mainVars, monVars, trigVars, failed, waitEnd,
                   closeCalls, doneClosed, peerVars>>

\* Shutdown is a Call: its request is written ...
ShutdownWrite(i) ==
    /\ Running
    /\ shpc[i] = "write"
    /\ LET out == WriteOutcome(peerMode, closeCalls > 0, pipeFree)
       IN  /\ out # "block"
           /\ shpc' = [shpc EXCEPT ![i] = IF out = "ok" THEN "wait" ELSE "done"]
           /\ failed' = [failed EXCEPT ![i] = IF out = "error" THEN @ \cup {"shutdown"} ELSE @]
           /\ pipeFree' = IF out = "ok" THEN PipeAfter(peerMode, pipeFree) ELSE pipeFree
    /\ UNCHANGED <<engineVars, codecVars, mainVars, monVars, trigVars, clpc, stages, waitEnd,
                   closeCalls, doneClosed, peerMode>>

\* ... and it returns when the peer's response is delivered ...
ShutdownReply(i) ==
    /\ Running
    /\ shpc[i] = "wait"
    /\ peerMode = "responsive"
    /\ shpc' = [shpc EXCEPT ![i] = "done"]
    /\ UNCHANGED <<engineVars, codecVars, mainVars, monVars, trigVars, clpc, stages, failed,
                   waitEnd, closeCalls, doneClosed, peerVars>>

\* ... or when shutdownCtx (500 ms) is done.
ShutdownCtxDone(i) ==
    /\ Running
    /\ shpc[i] = "wait"
    /\ shpc' = [shpc EXCEPT ![i] = "done"]
    /\ failed' = [failed EXCEPT ![i] = @ \cup {"shutdown"}]
    /\ UNCHANGED <<engineVars, codecVars, mainVars, monVars, trigVars, clpc, stages, waitEnd,
                   closeCalls, doneClosed, peerVars>>

\* select { case <-shutdownDone: ...
CleanupWaitDone(i) ==
    /\ Running
    /\ clpc[i] = "wait"
    /\ shpc[i] = "done"
    /\ waitEnd' = [waitEnd EXCEPT ![i] = "completed"]
    /\ clpc' = [clpc EXCEPT ![i] = CleanupNext("wait", "ok")]
    /\ UNCHANGED <<engineVars, codecVars, mainVars, monVars, trigVars, stages, failed, shpc,
                   closeCalls, doneClosed, peerVars>>

\* ... case <-time.After(1 * time.Second): }
CleanupWaitTimeout(i) ==
    /\ Running
    /\ clpc[i] = "wait"
    /\ waitEnd' = [waitEnd EXCEPT ![i] = "timedOut"]
    /\ clpc' = [clpc EXCEPT ![i] = CleanupNext("wait", "error")]
    /\ UNCHANGED <<engineVars, codecVars, mainVars, monVars, trigVars, stages, failed, shpc,
                   closeCalls, doneClosed, peerVars>>

\* s.lspClient.Exit(ctx): the exit notification is written.
CleanupExit(i) ==
    /\ Running
    /\ clpc[i] = "exit"
    /\ LET out == WriteOutcome(peerMode, closeCalls > 0, pipeFree)
       IN  /\ out # "block"
           /\ stages' = [stages EXCEPT ![i] = Append(@, "exit")]
           /\ failed' = [failed EXCEPT ![i] = IF out = "error" THEN @ \cup {"exit"} ELSE @]
           /\ pipeFree' = IF out = "ok" THEN PipeAfter(peerMode, pipeFree) ELSE pipeFree
           /\ clpc' = [clpc EXCEPT ![i] = CleanupNext("exit", out)]
    /\ UNCHANGED <<engineVars, codecVars, mainVars, monVars, trigVars, waitEnd, shpc,
                   closeCalls, doneClosed, peerMode>>

\* s.lspClient.Close(): the subprocess is terminated and both streams closed;
\* closing again reports an error.
CleanupClose(i) ==
    /\ Running
    /\ clpc[i] = "close"
    /\ stages' = [stages EXCEPT ![i] = Append(@, "close")]
    /\ failed' = [failed EXCEPT ![i] = IF closeCalls > 0 THEN @ \cup {"close"} ELSE @]
    /\ closeCalls' = closeCalls + 1
    /\ peerMode' = "exited"
    /\ clpc' = [clpc EXCEPT ![i] = CleanupNext("close", IF closeCalls > 0 THEN "error" ELSE "ok")]
    /\ UNCHANGED <<engineVars, codecVars, mainVars, monVars, trigVars, waitEnd, shpc,
                   doneClosed, pipeFree>>

\* select { case <-done: default: ... }: the test of the done channel.
CleanupCheckDone(i) ==
    /\ Running
    /\ clpc[i] = "checkDone"
    /\ clpc' = [clpc EXCEPT ![i] = IF doneClosed >= 1 THEN "returned" ELSE "closeDone"]
    /\ UNCHANGED <<engineVars, codecVars, mainVars, monVars, trigVars, stages, failed,
                   waitEnd, shpc, closeCalls, doneClosed, peerVars>>

\* default: close(done); closing a closed channel panics.
CleanupCloseDone(i) ==
    /\ Running
    /\ clpc[i] = "closeDone"
    /\ doneClosed' = doneClosed + 1
    /\ clpc' = [clpc EXCEPT ![i] = "returned"]
    /\ UNCHANGED <<engineVars, codecVars, mainVars, monVars, trigVars, stages, failed,
                   waitEnd, shpc, closeCalls, peerVars>>

\* ----------------------------------------------------- the language server
\* The peer stops answering, stops reading its input (with some room left in
\* the pipe), or exits; it never recovers.
PeerDegrades(mode, free) ==
    /\ Running
    /\ peerMode # "exited"
    /\ \/ peerMode = "responsive" /\ mode \in {"silent", "stalled", "exited"}
       \/ peerMode = "silent" /\ mode \in {"stalled", "exited"}
       \/ peerMode = "stalled" /\ mode = "exited"
    /\ peerMode' = mode
    /\ pipeFree' = IF mode = "stalled" THEN free ELSE pipeFree
    /\ UNCHANGED <<engineVars, codecVars, mainVars, monVars, trigVars, cleanupVars>>

CleanupStep(i) ==
    \/ CleanupCheck(i)
    \/ CleanupCloseFiles(i)
    \/ CleanupSpawnShutdown(i)
    \/ CleanupWaitDone(i)
    \/ CleanupWaitTimeout(i)
    \/ CleanupExit(i)
    \/ CleanupClose(i)
    \/ CleanupCheckDone(i)
    \/ CleanupCloseDone(i)

ShutdownStep(i) == ShutdownWrite(i) \/ ShutdownCtxDone(i)

NextLife ==
    \/ MainNewClient
    \/ MainInitialize
    \/ MainServeReturns
    \/ MainStartFailed
    \/ MainExitAfterCleanup
    \/ MainDone
    \/ MonitorStart
    \/ MonitorTick
    \/ MonitorDone
    \/ \E p \in PPIDs : Reparent(p)
    \/ SignalArrives
    \/ TriggerOnSignal
    \/ TriggerOnParentDeath
    \/ \E i \in Invokers : CleanupCheck(i)
    \/ \E i \in Invokers : CleanupCloseFiles(i)
    \/ \E i \in Invokers : CleanupSpawnShutdown(i)
    \/ \E i \in Invokers : ShutdownWrite(i)
    \/ \E i \in Invokers : ShutdownReply(i)
    \/ \E i \in Invokers : ShutdownCtxDone(i)
    \/ \E i \in Invokers : CleanupWaitDone(i)
    \/ \E i \in Invokers : CleanupWaitTimeout(i)
    \/ \E i \in Invokers : CleanupExit(i)
    \/ \E i \in Invokers : CleanupClose(i)
    \/ \E i \in Invokers : CleanupCheckDone(i)
    \/ \E i \in Invokers : CleanupCloseDone(i)
    \/ \E mode \in {"silent", "stalled", "exited"}, free \in 0..PipeCap : PeerDegrades(mode, free)

\* Every goroutine that can take a step eventually takes one, and every timer
\* eventually fires; the environment (signals, the parent, the peer, the MCP
\* transport) owes nothing.
SpecLife ==
    /\ Init
    /\ [][NextLife]_vars
    /\ \A i \in Invokers : WF_vars(CleanupStep(i)) /\ WF_vars(ShutdownStep(i))
    /\ WF_vars(TriggerOnSignal \/ TriggerOnParentDeath)
    /\ WF_vars(MonitorStart \/ MonitorTick \/ MonitorDone)
    /\ WF_vars(MainStartFailed \/ MainExitAfterCleanup \/ MainDone)

\* ------------------------------------------------------------------ C12
\* The process is gone: main called os.Exit, or a goroutine panicked.
ProcessGone == ~Running

\* C12: once cleanup is invoked it eventually completes (the done channel is
\* closed and cleanup returns, or the process is gone with it) whatever the
\* peer does: no answer, no reading of its input, or exited already.
C12_CleanupCompletes ==
    \A i \in Invokers :
        (clpc[i] # "idle") ~> ((clpc[i] = "returned" /\ doneClosed >= 1) \/ ProcessGone)

\* ------------------------------------------------------------------ C13
\* How many times a stage was executed, over all invocations of cleanup.
RECURSIVE Occurrences(_, _)
Occurrences(seq, x) ==
    IF seq = <<>> THEN 0
    ELSE (IF Head(seq) = x THEN 1 ELSE 0) + Occurrences(Tail(seq), x)
Executions(stage) == Occurrences(stages["trigger"], stage) + Occurrences(stages["main"], stage)
StageOrder == <<"closeFiles", "shutdown", "exit", "close">>

\* C13: a session is torn down exactly once: whatever the interleaving of the
\* triggers (signal, parent death, failure of start), each teardown stage is
\* executed at most once, the done channel is closed at most once, and
\* shutdown invoked on a session already closed executes no stage.
C13_TornDownOnce ==
    /\ \A k \in 1..Len(StageOrder) : Executions(StageOrder[k]) <= 1
    /\ doneClosed <= 1

\* ------------------------------------------------------------------ C14
\* C14: when shutdown has completed and the process exits, every language
\* server that was spawned has had Close invoked on it, also when the trigger
\* fired while the session was still starting.
C14_SpawnedAreClosed ==
    (mainpc = "exited" /\ doneClosed >= 1) => (spawnedProcs = 0 \/ closeCalls >= 1)

\* ------------------------------------------------------------------ C19
IsPrefix(s, t) == Len(s) <= Len(t) /\ s = SubSeq(t, 1, Len(s))
PastStages(i) == clpc[i] \in {"checkDone", "closeDone", "returned"}

\* C19: every invocation of cleanup executes its stages in the order close
\* files, shutdown request, exit notification, Close; a stage that failed or
\* timed out is followed by the later ones, so an invocation that entered the
\* stages leaves them with all four executed; the exit notification comes
\* after the wait for the shutdown request ended, by completion or by
\* timeout; Close is the last stage.
C19_StagesInOrder ==
    \A i \in Invokers :
        /\ IsPrefix(stages[i], StageOrder)
        /\ PastStages(i) => stages[i] \in {<<>>, StageOrder}
        /\ Occurrences(stages[i], "exit") > 0 =>
              /\ waitEnd[i] \in {"completed", "timedOut"}
              /\ waitEnd[i] = "completed" => shpc[i] = "done"
        /\ failed[i] \subseteq {stages[i][k] : k \in 1..Len(stages[i])}

\* C19 witness: an invocation of cleanup has returned after all four stages
\* although its shutdown request timed out and its exit notification failed.
C19_Witness ==
    \E i \in Invokers :
        /\ clpc[i] = "returned"
        /\ stages[i] = StageOrder
        /\ waitEnd[i] = "timedOut"
        /\ "exit" \in failed[i]

\* ------------------------------------------------------------------ C20
\* C20: parent-death detection triggers whenever the monitor's sample of the
\* parent identifier differs from the value captured at startup, be it init's
\* or any other, never while the sample equals that value, and at most once.
C20_TriggersOnAnyChange ==
    /\ parentDeath <= 1
    /\ currentPpid # 0 => (parentDeath = 1 <=> currentPpid # ppid)

\* ------------------------------------------------------------------ C21
\* Call c has drawn its id and has not returned.
InProgress(c) == callpc[c] \notin {"idle", "done"}

\* C21: no two Calls in progress hold the same id (nor the same table key),
\* a Call about to register finds its key free, and the entry of a registered
\* Call is its own channel: never overwritten, never shared.
C21_UniqueInFlight ==
    /\ \A c, d \in CallSet :
          (c # d /\ InProgress(c) /\ InProgress(d)) =>
              /\ callID[c] # callID[d]
              /\ IDString(callID[c]) # IDString(callID[d])
    /\ \A c \in CallSet :
          /\ callpc[c] = "register" => IDString(callID[c]) \notin DOMAIN handlers
          /\ InTable(c) =>
                /\ IDString(callID[c]) \in DOMAIN handlers
                /\ handlers[IDString(callID[c])] = c

\* C21 witness: two Calls are in progress at once, both registered, each
\* under its own key.
C21_Witness ==
    \E c, d \in CallSet :
        /\ c # d
        /\ InTable(c) /\ InTable(d)
        /\ callpc[c] = "wait"
        /\ handlers[IDString(callID[c])] = c
        /\ handlers[IDString(callID[d])] = d

\* ------------------------------------------------------------------ C22
\* Call c is past its registration and has not started to return.
Pending(c) == callpc[c] \in {"writeHeader", "writeBody", "wait"}

\* Every chunk of a request on the outbound stream was written by a Call that
\* had registered before, and the entry stays for as long as that Call writes
\* or waits.
C22_RegisteredBeforeWrite ==
    \A k \in 1..Len(stdin) :
        stdin[k].by = "call" =>
            LET c == stdin[k].n
            IN  /\ callpc[c] \notin {"idle", "register"}
                /\ stdin[k].msg.id = callID[c]
                /\ Pending(c) => Lookup(handlers, IDString(callID[c])) = c
\* The loop reading a response for a Call that still writes or waits finds
\* the Call's channel and goes on to deliver.
C22_ResponseStep ==
    ( /\ LoopReads
      /\ Head(stdout).err = <<>>
      /\ IsResponse(Head(stdout).msg)
      /\ \E c \in CallSet : Pending(c) /\ callID[c] = Head(stdout).msg.id )
    => /\ looppc' = "send"
       /\ loopCh' # 0
       /\ callID[loopCh'] = Head(stdout).msg.id
\* C22: Call registers its pending entry before it writes the request, so a
\* request on the outbound stream has its id in the table already and a
\* response arriving right after the write is not dropped as unmatched while
\* its Call waits.
C22_RegisterThenWrite == [](C22_RegisteredBeforeWrite) /\ [][C22_ResponseStep]_vars

\* C22 witness: the request of a waiting Call is on the outbound stream and
\* the loop has just matched the response to it.
C22_Witness ==
    \E c \in CallSet :
        /\ callpc[c] = "wait"
        /\ \E k \in 1..Len(stdin) :
              stdin[k].by = "call" /\ stdin[k].n = c /\ stdin[k].part = "body"
        /\ looppc = "send"
        /\ loopCh = c
        /\ loopMsg.id = callID[c]

=============================================================================
